---- MODULE Spec2Model ----
(***************************************************************************)
(* Model of kolibri/core/notifications/api.py: the hooks that derive       *)
(* LearnerProgressNotification rows from summary logs, exam logs and       *)
(* attempt logs.                                                           *)
(*                                                                         *)
(* The LearnerProgressNotification table is a bag of rows (the primary key *)
(* is left out: two rows with equal field values are two copies).  The     *)
(* lessons, exams, content nodes and logs are a fixed set of database rows;*)
(* the learner's memberships, the progress of the summary logs, the        *)
(* interaction history of the attempt log and the closed flag of the exam  *)
(* log change over time.                                                   *)
(***************************************************************************)
EXTENDS Integers, Sequences, FiniteSets, Bags, TLC

\* ------------------------------------------------------------------ bounds
\* No hook call is explored that would leave more than MaxRows rows stored.
MaxRows == 3
\* The attempt log under update holds at most MaxFailed incorrect interactions.
MaxFailed == 2

\* The concurrent requests run at most MaxRequests hook calls in all.
MaxRequests == 3
\* A run of parse_summarylog calls over the logs of a lesson has at most MaxCalls calls.
MaxCalls == 3

\* ------------------------------------------------------- program constants
\* Python's None for an id field that is not set.
None == 0
\* summarylog.progress is a float in [0, 1]; it is modelled in percent.
FullProgress == 100
\* "More than 3 errors in this mastery log".
HelpThreshold == 3

Resource == "Resource"
Lesson == "Lesson"
Quiz == "Quiz"
Started == "Started"
Completed == "Completed"
Help == "Help"
NoReason == "None"
Multiple == "Multiple"
EXERCISE == "exercise"

\* ------------------------------------------------------- database fixtures
UserIds == {1}
Collections == {1, 2}
ProgressValues == {50, FullProgress}

\* Lesson rows.  assigned is the set of collections of its LessonAssignment
\* rows; resources is the embedded list of resource descriptions.
Lessons ==
  { [id |-> 1, collection_id |-> 1, is_active |-> TRUE, assigned |-> {1},
     resources |-> << [content_id |-> 11, channel_id |-> 21, contentnode_id |-> 31],
                      [content_id |-> 12, channel_id |-> 21, contentnode_id |-> 32] >>],
    \* an inactive lesson holding the same exercise
    [id |-> 2, collection_id |-> 2, is_active |-> FALSE, assigned |-> {2},
     resources |-> << [content_id |-> 11, channel_id |-> 21, contentnode_id |-> 31] >>],
    \* an active lesson holding the content under another channel
    [id |-> 3, collection_id |-> 2, is_active |-> TRUE, assigned |-> {2},
     resources |-> << [content_id |-> 11, channel_id |-> 22, contentnode_id |-> 33] >>] }

LessonById(id) == CHOOSE l \in Lessons : l.id = id

\* ContentNode.kind by contentnode id.
ContentNodeKind(contentnode_id) ==
  IF contentnode_id \in {31, 33} THEN EXERCISE ELSE "video"

\* ContentSummaryLog rows (progress is the variable of that name).
SummaryLogs ==
  { [id |-> 1, user_id |-> 1, content_id |-> 11, channel_id |-> 21],
    [id |-> 2, user_id |-> 1, content_id |-> 12, channel_id |-> 21] }
SummaryLogIds == {s.id : s \in SummaryLogs}
SummaryLogById(id) == CHOOSE s \in SummaryLogs : s.id = id

\* AttemptLog rows.  Attempt logs 1 and 2 belong to mastery log 1 of summary
\* log 1 (the exercise); attempt log 3 to mastery log 2 of summary log 2.
\* fixed_failed is the number of incorrect interactions of the logs that are
\* not updated any more; attempt log 1 is the one under update.
AttemptLogs ==
  { [id |-> 1, user_id |-> 1, masterylog_id |-> 1, summarylog_id |-> 1, fixed_failed |-> 0],
    [id |-> 2, user_id |-> 1, masterylog_id |-> 1, summarylog_id |-> 1, fixed_failed |-> 2],
    [id |-> 3, user_id |-> 1, masterylog_id |-> 2, summarylog_id |-> 2, fixed_failed |-> 4] }
AttemptLogById(id) == CHOOSE a \in AttemptLogs : a.id = id
\* The attempt logs the serializer still updates (and calls the hook for).
LiveAttemptLogIds == {1, 3}
UpdatedAttemptLogId == 1

\* ExamAssignment rows <<exam_id, collection_id>> and ExamLog rows.
ExamAssignments == { <<1, 1>>, <<1, 2>> }
ExamLogs == { [id |-> 1, user_id |-> 1, exam_id |-> 1] }
ExamLogIds == {e.id : e \in ExamLogs}
ExamLogById(id) == CHOOSE e \in ExamLogs : e.id = id

\* The web requests that may run a hook at the same time.
Procs == {1, 2}

VARIABLES
  memberships,       \* Membership rows <<user_id, collection_id>>
  progress,          \* ContentSummaryLog.progress by summary log id
  failed,            \* incorrect interactions in the history of the updated attempt log
  closed,            \* ExamLog.closed by exam log id
  table,             \* LearnerProgressNotification: a bag of rows
  plain,             \* the table the same calls build with the lookups not memoized
  assignments_cache, \* memoize cache of get_assignments
  exam_cache,        \* memoize cache of exist_exam_notification
  pc,                \* concurrent requests: "idle", or "saving" inside save_notifications
  pending,           \* concurrent requests: the list handed to save_notifications
  nsaved,            \* concurrent requests: rows saved so far in the open transaction
  raced,             \* rows two requests computed before either of them committed
  nrequests,         \* concurrent requests: hook calls begun so far
  interval,          \* profiler: options['interval']
  handle_pc,         \* profiler: where Command.handle stands
  message,           \* profiler: the string get_logs returned last
  logged,            \* profiler: lines written with logger.info
  slept,             \* profiler: calls of time.sleep that returned
  errors             \* profiler: lines written with logger.error

database == <<memberships, progress, failed, closed>>
requests == <<pc, pending, nsaved, raced, nrequests>>
profiler == <<interval, handle_pc, message, logged, slept, errors>>
vars == <<memberships, progress, failed, closed, table, plain,
          assignments_cache, exam_cache, pc, pending, nsaved, raced, nrequests,
          interval, handle_pc, message, logged, slept, errors>>


\* --------------------------------------------------------- table helpers
Rows(tbl) == BagToSet(tbl)
Count(row, tbl) == CopiesIn(row, tbl)

\* The number of stored rows, copies counted, that are in the set wanted.
CountRows(tbl, wanted) ==
  BagCardinality([r \in wanted \cap Rows(tbl) |-> tbl[r]])

RECURSIVE SeqToBag(_)
SeqToBag(rows) ==
  IF rows = <<>> THEN EmptyBag ELSE SetToBag({Head(rows)}) (+) SeqToBag(Tail(rows))

RECURSIVE SortedSeq(_)
\* The ids of a set in ascending order (the order of an unordered queryset).
SortedSeq(ids) ==
  IF ids = {} THEN <<>>
  ELSE LET m == CHOOSE x \in ids : \A y \in ids : x <= y
       IN  <<m>> \o SortedSeq(ids \ {m})

RECURSIVE Flatten(_)
Flatten(seqs) == IF seqs = <<>> THEN <<>> ELSE Head(seqs) \o Flatten(Tail(seqs))

\* --------------------------------------------------------------- memoize
\* @memoize: a cache keyed on the call's arguments; a hit returns the stored
\* value, a miss computes, stores and returns it.
NoEntry == [hit |-> FALSE, val |-> <<>>]
Memoized(cache, key, computed) ==
  IF cache[key].hit THEN cache[key].val ELSE computed
MemoStore(cache, key, computed) ==
  IF cache[key].hit THEN cache ELSE [cache EXCEPT ![key] = [hit |-> TRUE, val |-> computed]]
\* cache_clear() of exist_exam_notification: every entry is dropped.
NoExamEntry == [hit |-> FALSE, val |-> FALSE]
cache_clear(cache) == [k \in DOMAIN cache |-> NoExamEntry]

\* The keys of the two caches: the argument tuples the hooks call with.
SummaryKey(summarylog_id) == <<"ContentSummaryLog", summarylog_id, summarylog_id, FALSE>>
AttemptKey(attemptlog_id) ==
  <<"AttemptLog", attemptlog_id, AttemptLogById(attemptlog_id).summarylog_id, TRUE>>
AssignmentKeys ==
  {SummaryKey(s) : s \in SummaryLogIds} \cup {AttemptKey(a) : a \in LiveAttemptLogIds}
ExamKeys == {<<e.user_id, e.exam_id>> : e \in ExamLogs}

\* -------------------------------------------------------- get_assignments
\* resources__regex=content_id: the id occurs somewhere in the stored list.
RegexMatch(resources, content_id) ==
  \E i \in DOMAIN resources :
    content_id \in {resources[i].content_id, resources[i].channel_id,
                    resources[i].contentnode_id}

\* lesson_contentnode[lesson.id]: the contentnode of the last resource with
\* the content and channel of the summary log; None when there is none.
LessonContentnode(lesson, content_id, channel_id) ==
  LET hits == {i \in DOMAIN lesson.resources :
                 /\ lesson.resources[i].content_id = content_id
                 /\ lesson.resources[i].channel_id = channel_id}
  IN  IF hits = {} THEN None
      ELSE lesson.resources[CHOOSE i \in hits : \A j \in hits : j <= i].contentnode_id

LearnerGroups(user_id, mem) == {m[2] : m \in {x \in mem : x[1] = user_id}}

FilteredLessons(user_id, content_id, mem) ==
  {l \in Lessons : /\ l.assigned \cap LearnerGroups(user_id, mem) # {}
                   /\ l.is_active
                   /\ RegexMatch(l.resources, content_id)}

\* The list of <<lesson id, contentnode id>> the function returns.
get_assignments(user_id, summarylog, attempt, mem) ==
  LET filtered == FilteredLessons(user_id, summarylog.content_id, mem)
      node(l) == LessonContentnode(l, summarylog.content_id, summarylog.channel_id)
      kept == {l \in filtered :
                 /\ node(l) # None
                 /\ attempt => ContentNodeKind(node(l)) = EXERCISE}
      ids == SortedSeq({l.id : l \in kept})
  IN  IF LearnerGroups(user_id, mem) = {} THEN <<>>
      ELSE [i \in 1..Len(ids) |-> <<ids[i], node(LessonById(ids[i]))>>]

\* --------------------------------------------------------- get_exam_group
\* Bug variant: the filter on the learner's own collections is left out.
get_exam_group_unfiltered(user_id, exam_id, mem) ==
  SortedSeq({a[2] : a \in {x \in ExamAssignments : x[1] = exam_id}})

get_exam_group(user_id, exam_id, mem) ==
  SortedSeq({a[2] : a \in {x \in ExamAssignments :
                             x[1] = exam_id /\ x[2] \in LearnerGroups(user_id, mem)}})

\* ----------------------------------------------------- create_notification
create_notification(notification_object, notification_event, user_id, group_id, lesson_id, contentnode_id, quiz_id, reason) ==
  [user_id |-> user_id,
   classroom_id |-> group_id,
   notification_object |-> notification_object,
   notification_event |-> notification_event,
   contentnode_id |-> IF contentnode_id # None THEN contentnode_id ELSE None,
   lesson_id |-> IF lesson_id # None THEN lesson_id ELSE None,
   quiz_id |-> IF quiz_id # None THEN quiz_id ELSE None,
   reason |-> IF reason # NoReason THEN reason ELSE NoReason]

\* ------------------------------------------------------ save_notifications
\* Bug variant: a save that overwrites the stored row of the same user, object
\* and event instead of inserting a new one.
save_notifications_upsert(tbl, notifications) ==
  LET kept == {r \in Rows(tbl) :
                 ~ \E i \in DOMAIN notifications :
                     /\ notifications[i].user_id = r.user_id
                     /\ notifications[i].notification_object = r.notification_object
                     /\ notifications[i].notification_event = r.notification_event}
  IN  [r \in kept |-> tbl[r]] (+) SeqToBag(notifications)

\* transaction.atomic(): every row of the list is saved, as one commit.
save_notifications(tbl, notifications) == tbl (+) SeqToBag(notifications)

\* The same block step by step, as other requests see the table:
\* Bug variant: the saves run outside a transaction, each one committed at once.
autocommit_save(tbl, notification) == tbl (+) SetToBag({notification})

\* notification.save() inside the open block shows them nothing,
in_transaction(tbl, notification) == tbl
\* leaving the block commits the rows saved in it,
on_commit(tbl, notifications) == tbl (+) SeqToBag(notifications)
\* and an exception raised by a save rolls all of them back.
on_rollback(tbl, notifications) == tbl


\* ------------------------------------------------- existence checks, emitters
check_and_created_completed_resource(lesson, user_id, contentnode_id, tbl) ==
  IF ~ \E r \in Rows(tbl) :
         /\ r.user_id = user_id
         /\ r.notification_object = Resource
         /\ r.notification_event = Completed
         /\ r.lesson_id = lesson.id
         /\ r.contentnode_id = contentnode_id
  THEN << create_notification(Resource, Completed, user_id, lesson.collection_id,
                              lesson.id, contentnode_id, None, NoReason) >>
  ELSE <<>>

check_and_created_completed_lesson(lesson, user_id, tbl) ==
  IF ~ \E r \in Rows(tbl) :
         /\ r.user_id = user_id
         /\ r.notification_object = Lesson
         /\ r.notification_event = Completed
         /\ r.lesson_id = lesson.id
         /\ r.classroom_id = lesson.collection_id
  THEN << create_notification(Lesson, Completed, user_id, lesson.collection_id,
                              lesson.id, None, None, NoReason) >>
  ELSE <<>>

\* Bug variant: the Resource Started row is created without looking for a stored one.
check_and_created_started_unchecked(lesson, user_id, contentnode_id, tbl) ==
  << create_notification(Resource, Started, user_id, lesson.collection_id,
                         lesson.id, contentnode_id, None, NoReason) >>

check_and_created_started(lesson, user_id, contentnode_id, tbl) ==
  IF \E r \in Rows(tbl) :
       /\ r.user_id = user_id
       /\ r.notification_object = Resource
       /\ r.notification_event = Started
       /\ r.lesson_id = lesson.id
       /\ r.contentnode_id = contentnode_id
  THEN <<>>
  ELSE << create_notification(Resource, Started, user_id, lesson.collection_id,
                              lesson.id, contentnode_id, None, NoReason) >>
       \o (IF ~ \E r \in Rows(tbl) :
                  /\ r.user_id = user_id
                  /\ r.notification_object = Lesson
                  /\ r.notification_event = Started
                  /\ r.lesson_id = lesson.id
                  /\ r.classroom_id = lesson.collection_id
           THEN << create_notification(Lesson, Started, user_id, lesson.collection_id,
                                       lesson.id, None, None, NoReason) >>
           ELSE <<>>)

\* ------------------------------------------------------- create_summarylog
\* The list create_summarylog hands to save_notifications, given the lessons
\* get_assignments answered.
create_summarylog_notifications(lessons, user_id, tbl) ==
  Flatten([i \in 1..Len(lessons) |->
             check_and_created_started(LessonById(lessons[i][1]), user_id,
                                       lessons[i][2], tbl)])

\* -------------------------------------------------------- parse_summarylog
\* The count without its progress=1.0 filter.
user_completed_any_progress(user_id, lesson_content_ids, prog) ==
  Cardinality({s \in SummaryLogs :
                 /\ s.user_id = user_id
                 /\ \E i \in DOMAIN lesson_content_ids : lesson_content_ids[i] = s.content_id})

\* ContentSummaryLog.objects.filter(user_id, content_id__in, progress=1.0).count()
user_completed(user_id, lesson_content_ids, prog) ==
  Cardinality({s \in SummaryLogs :
                 /\ s.user_id = user_id
                 /\ \E i \in DOMAIN lesson_content_ids : lesson_content_ids[i] = s.content_id
                 /\ prog[s.id] = FullProgress})

\* The loop body without its "continue" for a resource completed before.
parse_summarylog_lesson_no_continue(lesson, user_id, contentnode_id, prog, tbl) ==
  LET lesson_content_ids ==
        [i \in 1..Len(lesson.resources) |-> lesson.resources[i].content_id]
  IN  check_and_created_completed_resource(lesson, user_id, contentnode_id, tbl)
      \o (IF user_completed(user_id, lesson_content_ids, prog) = Len(lesson_content_ids)
          THEN check_and_created_completed_lesson(lesson, user_id, tbl)
          ELSE <<>>)

parse_summarylog_lesson(lesson, user_id, contentnode_id, prog, tbl) ==
  LET notification_completed ==
        check_and_created_completed_resource(lesson, user_id, contentnode_id, tbl)
      lesson_content_ids ==
        [i \in 1..Len(lesson.resources) |-> lesson.resources[i].content_id]
  IN  IF notification_completed = <<>> THEN <<>>
      ELSE notification_completed
           \o (IF user_completed(user_id, lesson_content_ids, prog) = Len(lesson_content_ids)
               THEN check_and_created_completed_lesson(lesson, user_id, tbl)
               ELSE <<>>)

parse_summarylog_notifications(lessons, user_id, prog, tbl) ==
  Flatten([i \in 1..Len(lessons) |->
             parse_summarylog_lesson(LessonById(lessons[i][1]), user_id,
                                     lessons[i][2], prog, tbl)])

\* ------------------------------------------------------------ exam hooks
exist_exam_notification(user_id, exam_id, tbl) ==
  \E r \in Rows(tbl) : /\ r.user_id = user_id
                       /\ r.quiz_id = exam_id
                       /\ r.notification_event = Started

\* The list created_quiz_notification hands to save_notifications.
created_quiz_notification(examlog, event_type, mem) ==
  LET touched_groups == get_exam_group(examlog.user_id, examlog.exam_id, mem)
  IN  [i \in 1..Len(touched_groups) |->
         create_notification(Quiz, event_type, examlog.user_id, touched_groups[i],
                             None, None, examlog.exam_id, NoReason)]

\* ------------------------------------------------------- parse_attemptslog
\* Incorrect interactions over all attempt logs of the mastery log.
failed_interactions(masterylog_id, fl) ==
  LET logs == {a \in AttemptLogs : a.masterylog_id = masterylog_id}
      inLog(a) == IF a.id = UpdatedAttemptLogId THEN fl ELSE a.fixed_failed
      RECURSIVE Sum(_)
      Sum(S) == IF S = {} THEN 0
                ELSE LET a == CHOOSE x \in S : TRUE IN inLog(a) + Sum(S \ {a})
  IN  Sum(logs)

parse_attemptslog_lesson(lesson, user_id, contentnode_id, tbl) ==
  IF \E r \in Rows(tbl) :
       /\ r.user_id = user_id
       /\ r.notification_object = Resource
       /\ r.notification_event = Help
       /\ r.lesson_id = lesson.id
       /\ r.classroom_id = lesson.collection_id
       /\ r.contentnode_id = contentnode_id
  THEN <<>>
  ELSE << create_notification(Resource, Help, user_id, lesson.collection_id,
                              lesson.id, contentnode_id, None, Multiple) >>

parse_attemptslog_notifications(lessons, attemptlog, fl, tbl) ==
  LET needs_help == failed_interactions(attemptlog.masterylog_id, fl) > HelpThreshold
  IN  IF lessons = <<>> \/ ~ needs_help THEN <<>>
      ELSE Flatten([i \in 1..Len(lessons) |->
                      parse_attemptslog_lesson(LessonById(lessons[i][1]), attemptlog.user_id,
                                               lessons[i][2], tbl)])


\* ---------------------------------------------- the hooks as one call each
\* Each *_run gives the list a call hands to save_notifications (empty when
\* the hook returns before it) and the cache the call leaves behind.
EmptyAssignmentsCache == [k \in AssignmentKeys |-> NoEntry]
EmptyExamCache == [k \in ExamKeys |-> NoExamEntry]

create_summarylog_run(summarylog_id, tbl, cache, mem) ==
  LET summarylog == SummaryLogById(summarylog_id)
      computed == get_assignments(summarylog.user_id, summarylog, FALSE, mem)
      lessons == Memoized(cache, SummaryKey(summarylog_id), computed)
  IN  [notifications |-> create_summarylog_notifications(lessons, summarylog.user_id, tbl),
       cache |-> MemoStore(cache, SummaryKey(summarylog_id), computed)]

parse_summarylog_run(summarylog_id, tbl, cache, mem, prog) ==
  LET summarylog == SummaryLogById(summarylog_id)
      computed == get_assignments(summarylog.user_id, summarylog, FALSE, mem)
      lessons == Memoized(cache, SummaryKey(summarylog_id), computed)
  IN  IF prog[summarylog_id] < FullProgress
      THEN [notifications |-> <<>>, cache |-> cache]
      ELSE [notifications |->
              parse_summarylog_notifications(lessons, summarylog.user_id, prog, tbl),
            cache |-> MemoStore(cache, SummaryKey(summarylog_id), computed)]

parse_attemptslog_run(attemptlog_id, tbl, cache, mem, fl) ==
  LET attemptlog == AttemptLogById(attemptlog_id)
      summarylog == SummaryLogById(attemptlog.summarylog_id)
      computed == get_assignments(attemptlog.user_id, summarylog, TRUE, mem)
      lessons == Memoized(cache, AttemptKey(attemptlog_id), computed)
  IN  [notifications |-> parse_attemptslog_notifications(lessons, attemptlog, fl, tbl),
       cache |-> MemoStore(cache, AttemptKey(attemptlog_id), computed)]

\* create_examlog without its cache_clear(): the False answer stays cached.
create_examlog_run_cache_kept(examlog_id, tbl, cache, mem) ==
  LET examlog == ExamLogById(examlog_id)
      key == <<examlog.user_id, examlog.exam_id>>
      computed == exist_exam_notification(examlog.user_id, examlog.exam_id, tbl)
  IN  IF Memoized(cache, key, computed)
      THEN [notifications |-> <<>>, cache |-> MemoStore(cache, key, computed)]
      ELSE [notifications |-> created_quiz_notification(examlog, Started, mem),
            cache |-> MemoStore(cache, key, computed)]

create_examlog_run(examlog_id, tbl, cache, mem) ==
  LET examlog == ExamLogById(examlog_id)
      key == <<examlog.user_id, examlog.exam_id>>
      computed == exist_exam_notification(examlog.user_id, examlog.exam_id, tbl)
  IN  IF Memoized(cache, key, computed)
      THEN [notifications |-> <<>>, cache |-> MemoStore(cache, key, computed)]
      ELSE [notifications |-> created_quiz_notification(examlog, Started, mem),
            cache |-> cache_clear(cache)]

\* parse_examlog without its return for an exam log that is not closed.
parse_examlog_run_open(examlog_id, tbl, cache, mem, cl) ==
  [notifications |-> created_quiz_notification(ExamLogById(examlog_id), Completed, mem),
   cache |-> cache]

parse_examlog_run(examlog_id, tbl, cache, mem, cl) ==
  LET examlog == ExamLogById(examlog_id)
  IN  IF ~ cl[examlog_id] THEN [notifications |-> <<>>, cache |-> cache]
      ELSE [notifications |-> created_quiz_notification(examlog, Completed, mem),
            cache |-> cache]

\* The table and cache after a call that ran alone.
Ran(tbl, run) ==
  [table |-> save_notifications(tbl, run.notifications), cache |-> run.cache]

\* ------------------------------------------------------------------- Init
\* The profile command has not been started.
ProfilerNotRun ==
  /\ interval = 0
  /\ handle_pc = "loop"
  /\ message = <<>>
  /\ logged = 0
  /\ slept = 0
  /\ errors = 0

Init ==
  /\ memberships = {}
  /\ progress = [s \in SummaryLogIds |-> 50]
  /\ failed = 0
  /\ closed = [e \in ExamLogIds |-> FALSE]
  /\ table = EmptyBag
  /\ plain = EmptyBag
  /\ assignments_cache = EmptyAssignmentsCache
  /\ exam_cache = EmptyExamCache
  /\ pc = [p \in Procs |-> "idle"]
  /\ pending = [p \in Procs |-> <<>>]
  /\ nsaved = [p \in Procs |-> 0]
  /\ raced = {}
  /\ nrequests = 0
  /\ ProfilerNotRun

Fits(tbl) == BagCardinality(tbl) <= MaxRows

\* ------------------------------------------------------------ hook actions
\* One hook call, start to end, with no other request running.
create_summarylog(summarylog_id) ==
  LET done == Ran(table, create_summarylog_run(summarylog_id, table,
                                               assignments_cache, memberships))
      bare == Ran(plain, create_summarylog_run(summarylog_id, plain,
                                               EmptyAssignmentsCache, memberships))
  IN  /\ Fits(done.table) /\ Fits(bare.table)
      /\ table' = done.table
      /\ assignments_cache' = done.cache
      /\ plain' = bare.table
      /\ UNCHANGED <<database, exam_cache, requests, profiler>>

parse_summarylog(summarylog_id) ==
  LET done == Ran(table, parse_summarylog_run(summarylog_id, table, assignments_cache,
                                              memberships, progress))
      bare == Ran(plain, parse_summarylog_run(summarylog_id, plain, EmptyAssignmentsCache,
                                              memberships, progress))
  IN  /\ Fits(done.table) /\ Fits(bare.table)
      /\ table' = done.table
      /\ assignments_cache' = done.cache
      /\ plain' = bare.table
      /\ UNCHANGED <<database, exam_cache, requests, profiler>>

parse_attemptslog(attemptlog_id) ==
  LET done == Ran(table, parse_attemptslog_run(attemptlog_id, table, assignments_cache,
                                               memberships, failed))
      bare == Ran(plain, parse_attemptslog_run(attemptlog_id, plain, EmptyAssignmentsCache,
                                               memberships, failed))
  IN  /\ Fits(done.table) /\ Fits(bare.table)
      /\ table' = done.table
      /\ assignments_cache' = done.cache
      /\ plain' = bare.table
      /\ UNCHANGED <<database, exam_cache, requests, profiler>>

create_examlog(examlog_id) ==
  LET done == Ran(table, create_examlog_run(examlog_id, table, exam_cache, memberships))
      bare == Ran(plain, create_examlog_run(examlog_id, plain, EmptyExamCache, memberships))
  IN  /\ Fits(done.table) /\ Fits(bare.table)
      /\ table' = done.table
      /\ exam_cache' = done.cache
      /\ plain' = bare.table
      /\ UNCHANGED <<database, assignments_cache, requests, profiler>>

parse_examlog(examlog_id) ==
  LET done == Ran(table, parse_examlog_run(examlog_id, table, exam_cache,
                                           memberships, closed))
      bare == Ran(plain, parse_examlog_run(examlog_id, plain, EmptyExamCache,
                                           memberships, closed))
  IN  /\ Fits(done.table) /\ Fits(bare.table)
      /\ table' = done.table
      /\ plain' = bare.table
      /\ UNCHANGED <<database, assignments_cache, exam_cache, requests, profiler>>

\* ------------------------------------- the database changing under the hooks
AddMembership(user_id, collection_id) ==
  /\ <<user_id, collection_id>> \notin memberships
  /\ memberships' = memberships \cup {<<user_id, collection_id>>}
  /\ UNCHANGED <<progress, failed, closed, table, plain, assignments_cache, exam_cache,
                 requests, profiler>>

RemoveMembership(user_id, collection_id) ==
  /\ <<user_id, collection_id>> \in memberships
  /\ memberships' = memberships \ {<<user_id, collection_id>>}
  /\ UNCHANGED <<progress, failed, closed, table, plain, assignments_cache, exam_cache,
                 requests, profiler>>

\* The learner finishes the content: the serializer stores progress 1.0.
CompleteContent(summarylog_id) ==
  /\ progress[summarylog_id] < FullProgress
  /\ progress' = [progress EXCEPT ![summarylog_id] = FullProgress]
  /\ UNCHANGED <<memberships, failed, closed, table, plain, assignments_cache, exam_cache,
                 requests, profiler>>

\* One more incorrect interaction is stored in the attempt log under update.
AddIncorrectInteraction ==
  /\ failed < MaxFailed
  /\ failed' = failed + 1
  /\ UNCHANGED <<memberships, progress, closed, table, plain, assignments_cache,
                 exam_cache, requests, profiler>>

CloseExam(examlog_id) ==
  /\ ~ closed[examlog_id]
  /\ closed' = [closed EXCEPT ![examlog_id] = TRUE]
  /\ UNCHANGED <<memberships, progress, failed, table, plain, assignments_cache,
                 exam_cache, requests, profiler>>

Next ==
  \/ \E s \in SummaryLogIds : create_summarylog(s)
  \/ \E s \in SummaryLogIds : parse_summarylog(s)
  \/ \E a \in LiveAttemptLogIds : parse_attemptslog(a)
  \/ \E e \in ExamLogIds : create_examlog(e)
  \/ \E e \in ExamLogIds : parse_examlog(e)
  \/ \E u \in UserIds, c \in Collections : AddMembership(u, c)
  \/ \E u \in UserIds, c \in Collections : RemoveMembership(u, c)
  \/ \E s \in SummaryLogIds : CompleteContent(s)
  \/ AddIncorrectInteraction
  \/ \E e \in ExamLogIds : CloseExam(e)

\* Hook calls one after the other, the database changing in between.
Spec == Init /\ [][Next]_vars


\* ------------------------------------------------------ concurrent requests
\* Two web requests run hooks at the same time.  A request evaluates its
\* lookups and existence checks (Begin), then saves its list row by row inside
\* transaction.atomic() (save_one), and commits (commit) or, when a save
\* raises, rolls back (save_fails).
InitConc ==
  /\ memberships \in SUBSET (UserIds \X Collections)
  /\ progress = [s \in SummaryLogIds |-> FullProgress]
  /\ failed = MaxFailed
  /\ closed = [e \in ExamLogIds |-> TRUE]
  /\ table = EmptyBag
  /\ plain = EmptyBag
  /\ assignments_cache = EmptyAssignmentsCache
  /\ exam_cache = EmptyExamCache
  /\ pc = [p \in Procs |-> "idle"]
  /\ pending = [p \in Procs |-> <<>>]
  /\ nsaved = [p \in Procs |-> 0]
  /\ raced = {}
  /\ nrequests = 0
  /\ ProfilerNotRun

Range(seq) == {seq[i] : i \in DOMAIN seq}

Begin(p, run) ==
  /\ pc[p] = "idle"
  /\ nrequests < MaxRequests
  /\ nrequests' = nrequests + 1
  /\ pc' = [pc EXCEPT ![p] = "saving"]
  /\ pending' = [pending EXCEPT ![p] = run.notifications]
  /\ nsaved' = [nsaved EXCEPT ![p] = 0]
  /\ raced' = raced \cup {r \in Range(run.notifications) :
                            \E q \in Procs \ {p} : pc[q] = "saving" /\ r \in Range(pending[q])}
  /\ UNCHANGED <<database, table, plain, profiler>>

begin_create_summarylog(p, summarylog_id) ==
  LET run == create_summarylog_run(summarylog_id, table, assignments_cache, memberships)
  IN  Begin(p, run) /\ assignments_cache' = run.cache /\ UNCHANGED exam_cache

begin_parse_summarylog(p, summarylog_id) ==
  LET run == parse_summarylog_run(summarylog_id, table, assignments_cache,
                                  memberships, progress)
  IN  Begin(p, run) /\ assignments_cache' = run.cache /\ UNCHANGED exam_cache

begin_parse_attemptslog(p, attemptlog_id) ==
  LET run == parse_attemptslog_run(attemptlog_id, table, assignments_cache,
                                   memberships, failed)
  IN  Begin(p, run) /\ assignments_cache' = run.cache /\ UNCHANGED exam_cache

begin_create_examlog(p, examlog_id) ==
  LET run == create_examlog_run(examlog_id, table, exam_cache, memberships)
  IN  Begin(p, run) /\ exam_cache' = run.cache /\ UNCHANGED assignments_cache

begin_parse_examlog(p, examlog_id) ==
  LET run == parse_examlog_run(examlog_id, table, exam_cache, memberships, closed)
  IN  Begin(p, run) /\ UNCHANGED <<assignments_cache, exam_cache>>

save_one(p) ==
  /\ pc[p] = "saving"
  /\ nsaved[p] < Len(pending[p])
  /\ table' = in_transaction(table, pending[p][nsaved[p] + 1])
  /\ nsaved' = [nsaved EXCEPT ![p] = nsaved[p] + 1]
  /\ UNCHANGED <<profiler, database, plain, assignments_cache, exam_cache, pc, pending, raced, nrequests>>

save_fails(p) ==
  /\ pc[p] = "saving"
  /\ nsaved[p] < Len(pending[p])
  /\ table' = on_rollback(table, SubSeq(pending[p], 1, nsaved[p]))
  /\ pc' = [pc EXCEPT ![p] = "idle"]
  /\ pending' = [pending EXCEPT ![p] = <<>>]
  /\ nsaved' = [nsaved EXCEPT ![p] = 0]
  /\ UNCHANGED <<profiler, database, plain, assignments_cache, exam_cache, raced, nrequests>>

commit(p) ==
  /\ pc[p] = "saving"
  /\ nsaved[p] = Len(pending[p])
  /\ table' = on_commit(table, pending[p])
  /\ pc' = [pc EXCEPT ![p] = "idle"]
  /\ pending' = [pending EXCEPT ![p] = <<>>]
  /\ nsaved' = [nsaved EXCEPT ![p] = 0]
  /\ UNCHANGED <<profiler, database, plain, assignments_cache, exam_cache, raced, nrequests>>

NextConc ==
  \/ \E p \in Procs, s \in SummaryLogIds : begin_create_summarylog(p, s)
  \/ \E p \in Procs, s \in SummaryLogIds : begin_parse_summarylog(p, s)
  \/ \E p \in Procs, a \in LiveAttemptLogIds : begin_parse_attemptslog(p, a)
  \/ \E p \in Procs, e \in ExamLogIds : begin_create_examlog(p, e)
  \/ \E p \in Procs, e \in ExamLogIds : begin_parse_examlog(p, e)
  \/ \E p \in Procs : save_one(p)
  \/ \E p \in Procs : save_fails(p)
  \/ \E p \in Procs : commit(p)

\* Hook calls of two concurrent requests, interleaved.
SpecConc == InitConc /\ [][NextConc]_vars


\* ------------------------------------------------------ the profile command
\* kolibri/core/analytics/management/commands/profile.py.  A Python string is
\* a sequence of one-character strings, so that ','.join builds the text that
\* is logged and its fields are found by splitting it at the commas.

\* The loop of handle is followed for at most MaxTicks logged lines.
MaxTicks == 2

\* Values of --interval (type=int: any integer is accepted).
Intervals == {0, 1, 60, -1}

Digits == <<"0", "1", "2", "3", "4", "5", "6", "7", "8", "9">>

\* str() of a non-negative int.
RECURSIVE str(_)
str(n) ==
  IF n < 10 THEN <<Digits[n + 1]>>
  ELSE str(n \div 10) \o <<Digits[(n % 10) + 1]>>

\* str() of a non-negative float, given in tenths and shown with one decimal.
str_float(tenths) == str(tenths \div 10) \o <<".">> \o str(tenths % 10)

\* sep.join(strings)
RECURSIVE join(_, _)
join(sep, strings) ==
  IF strings = <<>> THEN <<>>
  ELSE IF Len(strings) = 1 THEN strings[1]
  ELSE strings[1] \o sep \o join(sep, Tail(strings))

unknown == <<"u", "n", "k", "n", "o", "w", "n">>
NoneText == <<"N", "o", "n", "e">>

\* What one tick finds.  db names the statement of the try block at which
\* OperationalError is raised ("up": at none); the counts are the results of
\* the three queries; the psutil readings are in tenths; pid_file is what
\* open(PID_FILE) and int(f.readline()) give; running holds the pids of the
\* live processes.
DbOutcomes == {"up", "ensure_connection", "active_sessions", "active_users",
               "active_users_minute"}
QueryCounts == {0, 12}
PidFiles == { [kind |-> "IOError", pid |-> 0], [kind |-> "ValueError", pid |-> 0],
              [kind |-> "pid", pid |-> 0], [kind |-> "pid", pid |-> 7],
              [kind |-> "pid", pid |-> 8] }
RunningPids == {7}
MachineReadings ==
  { [cpu_percent |-> 0, used |-> 5120, available |-> 2565, pids |-> 90,
     proc_vms |-> 1203, proc_cpu_percent |-> 25],
    [cpu_percent |-> 125, used |-> 7000, available |-> 685, pids |-> 104,
     proc_vms |-> 1310, proc_cpu_percent |-> 0] }
Samples ==
  [db : DbOutcomes, sessions : QueryCounts, users : QueryCounts,
   users_minute : QueryCounts, pid_file : PidFiles, machine : MachineReadings]

\* get_logs: the text it returns, whether it raises instead (a local that was
\* never assigned is read when the tuple of line 79 is built), and the lines
\* it writes with logger.error.
get_logs(sample) ==
  LET operational_error == sample.db # "up"
      assigned ==
        CASE sample.db = "up" ->
               {"active_sessions", "active_users", "active_users_minute"}
          [] sample.db = "active_users_minute" -> {"active_sessions", "active_users"}
          [] sample.db = "active_users" -> {"active_sessions"}
          [] OTHER -> {}
      active_sessions ==
        IF "active_sessions" \in assigned THEN str(sample.sessions) ELSE unknown
      active_users == str(sample.users)
      active_users_minute == str(sample.users_minute)
      used_cpu == str_float(sample.machine.cpu_percent)
      used_memory == str_float(sample.machine.used)
      free_memory == str_float(sample.machine.available)
      total_processes == str(sample.machine.pids)
      kolibri_pid == IF sample.pid_file.kind = "pid" THEN sample.pid_file.pid ELSE None
      \* "if kolibri_pid:" is false for None and for 0
      process_found == kolibri_pid # None /\ kolibri_pid # 0 /\ kolibri_pid \in RunningPids
      kolibri_mem == IF process_found THEN str_float(sample.machine.proc_vms) ELSE NoneText
      kolibri_cpu ==
        IF process_found THEN str_float(sample.machine.proc_cpu_percent) ELSE NoneText
      collected_information ==
        <<active_sessions, active_users, active_users_minute, used_cpu, used_memory,
          free_memory, total_processes, kolibri_cpu, kolibri_mem>>
  IN  IF {"active_users", "active_users_minute"} \subseteq assigned
      THEN [raised |-> FALSE, logs |-> join(<<",">>, collected_information),
            errors |-> IF operational_error THEN 1 ELSE 0]
      ELSE [raised |-> TRUE, logs |-> <<>>,
            errors |-> IF operational_error THEN 1 ELSE 0]

\* handle, line 30: message = self.get_logs()
handle_get_logs ==
  /\ handle_pc = "loop"
  /\ logged < MaxTicks
  /\ \E sample \in Samples :
       LET result == get_logs(sample)
       IN  /\ errors' = errors + result.errors
           /\ IF result.raised
              THEN handle_pc' = "UnboundLocalError" /\ UNCHANGED message
              ELSE handle_pc' = "info" /\ message' = result.logs
  /\ UNCHANGED <<interval, logged, slept>>
  /\ UNCHANGED <<database, table, plain, assignments_cache, exam_cache, requests>>

\* handle, lines 31-33: logger.info(message); if not interval: break
handle_logger_info ==
  /\ handle_pc = "info"
  /\ logged' = logged + 1
  /\ handle_pc' = IF interval = 0 THEN "returned" ELSE "sleep"
  /\ UNCHANGED <<interval, message, slept, errors>>
  /\ UNCHANGED <<database, table, plain, assignments_cache, exam_cache, requests>>

\* handle, line 34: time.sleep(interval), which raises ValueError for a
\* negative length.
handle_sleep ==
  /\ handle_pc = "sleep"
  /\ IF interval < 0
     THEN handle_pc' = "ValueError" /\ UNCHANGED slept
     ELSE handle_pc' = "loop" /\ slept' = slept + 1
  /\ UNCHANGED <<interval, message, logged, errors>>
  /\ UNCHANGED <<database, table, plain, assignments_cache, exam_cache, requests>>

InitProfiler ==
  /\ memberships = {}
  /\ progress = [s \in SummaryLogIds |-> 50]
  /\ failed = 0
  /\ closed = [e \in ExamLogIds |-> FALSE]
  /\ table = EmptyBag
  /\ plain = EmptyBag
  /\ assignments_cache = EmptyAssignmentsCache
  /\ exam_cache = EmptyExamCache
  /\ pc = [p \in Procs |-> "idle"]
  /\ pending = [p \in Procs |-> <<>>]
  /\ nsaved = [p \in Procs |-> 0]
  /\ raced = {}
  /\ nrequests = 0
  /\ interval \in Intervals
  /\ handle_pc = "loop"
  /\ message = <<>>
  /\ logged = 0
  /\ slept = 0
  /\ errors = 0

NextProfiler ==
  \/ handle_get_logs
  \/ handle_logger_info
  \/ handle_sleep

\* One run of the profile command.
SpecProfiler == InitProfiler /\ [][NextProfiler]_vars


\* ================================================================== claims
\* The rows of a table that are of one object and event for a user.
RowsOf(tbl, user_id, notification_object, notification_event) ==
  {r \in Rows(tbl) : /\ r.user_id = user_id
                     /\ r.notification_object = notification_object
                     /\ r.notification_event = notification_event}

\* The active lessons, assigned to a collection of the user, that hold the
\* content item of the summary log.
MatchingLessons(summarylog, mem) ==
  {l \in Lessons :
     /\ l.is_active
     /\ l.assigned \cap LearnerGroups(summarylog.user_id, mem) # {}
     /\ \E i \in DOMAIN l.resources :
          /\ l.resources[i].content_id = summarylog.content_id
          /\ l.resources[i].channel_id = summarylog.channel_id}

\* The contentnodes under which a lesson holds the content item.
ContentnodesIn(l, summarylog) ==
  {l.resources[i].contentnode_id : i \in
     {j \in DOMAIN l.resources : /\ l.resources[j].content_id = summarylog.content_id
                                 /\ l.resources[j].channel_id = summarylog.channel_id}}

\* C1: after any sequence of hook calls made one after the other, the table
\* holds at most one row per (user, object, event, lesson/contentnode or
\* quiz).  The classroom is counted into the tuple here, the reading kindest to
\* the claim (the rows a quiz fans out to two classrooms are then different
\* tuples); a table that breaks this breaks the claim as written too.
NotificationTuple(r) ==
  <<r.user_id, r.classroom_id, r.notification_object, r.notification_event,
    r.lesson_id, r.contentnode_id, r.quiz_id>>
OneRowPerTuple ==
  \A r \in Rows(table) :
    CountRows(table, {q \in Rows(table) : NotificationTuple(q) = NotificationTuple(r)}) <= 1

\* C2: for a user who is a member of a collection with an active lesson
\* holding the content item, a create_summarylog call leaves exactly one
\* Resource Started row for that lesson and contentnode and exactly one Lesson
\* Started row for that lesson, and a second call for the same log adds nothing.
CreateSummarylogStartsOnce ==
  \A s \in SummaryLogIds :
    LET summarylog == SummaryLogById(s)
        first == Ran(table, create_summarylog_run(s, table, assignments_cache, memberships))
        again == Ran(first.table,
                     create_summarylog_run(s, first.table, first.cache, memberships))
    IN  \A l \in MatchingLessons(summarylog, memberships) :
          /\ \A n \in ContentnodesIn(l, summarylog) :
               CountRows(first.table,
                         {r \in RowsOf(first.table, summarylog.user_id, Resource, Started) :
                            r.lesson_id = l.id /\ r.contentnode_id = n}) = 1
          /\ CountRows(first.table,
                       {r \in RowsOf(first.table, summarylog.user_id, Lesson, Started) :
                          r.lesson_id = l.id}) = 1
          /\ again.table = first.table

\* The summary logs of a user for the resources of a lesson.
LessonLogs(l, user_id) ==
  {s \in SummaryLogs :
     /\ s.user_id = user_id
     /\ \E i \in DOMAIN l.resources : /\ l.resources[i].content_id = s.content_id
                                      /\ l.resources[i].channel_id = s.channel_id}

RECURSIVE ParseAll(_, _, _)
\* The table after parse_summarylog was called for the logs of order, in turn.
ParseAll(order, tbl, cache) ==
  IF order = <<>> THEN tbl
  ELSE LET ran == Ran(tbl, parse_summarylog_run(Head(order), tbl, cache,
                                                memberships, progress))
       IN  ParseAll(Tail(order), ran.table, ran.cache)

\* Every way to call for each of the logs at least once, in at most MaxCalls calls.
Orders(ids) ==
  {o \in UNION {[1..n -> ids] : n \in 1..MaxCalls} : Range(o) = ids}

\* C3: for a user assigned a lesson whose resources all stand at progress 1.0,
\* once parse_summarylog was called for every resource (any order, any number
\* of times) the table holds exactly one Resource Completed row per resource
\* of the lesson and exactly one Lesson Completed row for the lesson.
CompletedOnceEach ==
  \A u \in UserIds, l \in Lessons :
    LET logs == LessonLogs(l, u)
    IN  ( /\ l.is_active
          /\ l.assigned \cap LearnerGroups(u, memberships) # {}
          /\ \A i \in DOMAIN l.resources :
               \E s \in logs : /\ s.content_id = l.resources[i].content_id
                               /\ s.channel_id = l.resources[i].channel_id
                               /\ progress[s.id] = FullProgress )
        => \A o \in Orders({s.id : s \in logs}) :
             LET tbl == ParseAll(o, table, assignments_cache)
             IN  /\ \A i \in DOMAIN l.resources :
                      CountRows(tbl, {r \in RowsOf(tbl, u, Resource, Completed) :
                                        /\ r.lesson_id = l.id
                                        /\ r.contentnode_id = l.resources[i].contentnode_id}) = 1
                 /\ CountRows(tbl, {r \in RowsOf(tbl, u, Lesson, Completed) :
                                      r.lesson_id = l.id}) = 1

\* C4: when the attempt logs of the mastery log hold more than 3 incorrect
\* interactions and the exercise is in a lesson assigned to the user, a
\* parse_attemptslog call leaves a single Help row per matching lesson, and a
\* later call, after one more incorrect interaction, adds no Help row.
HelpOnce ==
  \A a \in LiveAttemptLogIds :
    LET attemptlog == AttemptLogById(a)
        summarylog == SummaryLogById(attemptlog.summarylog_id)
        lessons == {l \in MatchingLessons(summarylog, memberships) :
                      \E n \in ContentnodesIn(l, summarylog) : ContentNodeKind(n) = EXERCISE}
        first == Ran(table, parse_attemptslog_run(a, table, assignments_cache,
                                                  memberships, failed))
        again == Ran(first.table,
                     parse_attemptslog_run(a, first.table, first.cache,
                                           memberships, failed + 1))
    IN  failed_interactions(attemptlog.masterylog_id, failed) > HelpThreshold
        => \A l \in lessons :
             /\ CountRows(first.table,
                          {r \in RowsOf(first.table, attemptlog.user_id, Resource, Help) :
                             r.lesson_id = l.id}) = 1
             /\ again.table = first.table

\* The collections an exam is assigned to.
AssignedClassrooms(exam_id) == {a[2] : a \in {x \in ExamAssignments : x[1] = exam_id}}

\* The list parse_examlog saves holds one Quiz Completed row for each of the
\* classrooms given, and nothing else.
QuizCompletedFor(examlog_id, classrooms) ==
  LET examlog == ExamLogById(examlog_id)
      saved == parse_examlog_run(examlog_id, table, exam_cache, memberships,
                                 closed).notifications
  IN  /\ Len(saved) = Cardinality(classrooms)
      /\ \A c \in classrooms :
           Cardinality({i \in DOMAIN saved :
                          saved[i] = create_notification(Quiz, Completed, examlog.user_id, c,
                                                         None, None, examlog.exam_id,
                                                         NoReason)}) = 1

\* C5, as claimed: parse_examlog on a closed exam log saves one Quiz Completed
\* row per classroom the exam is assigned to (two for an exam assigned to two
\* classrooms).
QuizCompletedPerAssignedClassroom ==
  \A e \in ExamLogIds :
    closed[e] => QuizCompletedFor(e, AssignedClassrooms(ExamLogById(e).exam_id))

\* C5, amended: parse_examlog on a closed exam log saves one Quiz Completed
\* row per classroom or group that the exam is assigned to and that the user is
\* a member of (two when the user is in both classrooms of the exam).
QuizCompletedPerOwnClassroom ==
  \A e \in ExamLogIds :
    closed[e] =>
      QuizCompletedFor(e, AssignedClassrooms(ExamLogById(e).exam_id)
                          \cap LearnerGroups(ExamLogById(e).user_id, memberships))

\* C5 witness: the learner is in both classrooms of the closed exam and the
\* table holds one Quiz Completed row for each of the two.
TwoQuizCompletedStored ==
  \E e \in ExamLogIds :
    LET examlog == ExamLogById(e)
    IN  /\ closed[e]
        /\ LearnerGroups(examlog.user_id, memberships) = {1, 2}
        /\ \A c \in {1, 2} :
             Count(create_notification(Quiz, Completed, examlog.user_id, c, None, None,
                                       examlog.exam_id, NoReason), table) = 1

\* C6: every emission path looks for an identical stored row before it
\* inserts: no call (parse_examlog on a closed exam log among them) adds a row
\* identical to one already stored.
NoIdenticalRowInserted ==
  [][\A r \in Rows(table') : Count(r, table') > Count(r, table) => Count(r, table) = 0]_vars

\* C7: without a lock, identical rows come from a race: whenever the table
\* holds two identical rows (other than the Quiz Completed rows, which are
\* never checked), two requests computed that row before either committed.
DuplicatesOnlyByRace ==
  \A r \in Rows(table) :
    (Count(r, table) >= 2 /\ ~ (r.notification_object = Quiz /\ r.notification_event = Completed))
      => r \in raced

\* C7 witness: two identical Resource Started rows are stored, both computed
\* by create_summarylog calls that passed the existence check.
DuplicateStartedStored ==
  \E r \in Rows(table) :
    /\ r.notification_object = Resource
    /\ r.notification_event = Started
    /\ Count(r, table) = 2
    /\ r \in raced

\* C8: the list of one hook call is stored all or nothing: a step changes the
\* table only by committing the whole list of a request that saved every row
\* of it; a request whose save fails leaves the table as it was.
AllOrNothing ==
  [][\/ table' = table
     \/ \E p \in Procs : /\ pc[p] = "saving"
                         /\ pc'[p] = "idle"
                         /\ nsaved[p] = Len(pending[p])
                         /\ table' = table (+) SeqToBag(pending[p])]_vars

\* C8 witness: a request has saved a part of its list inside the open
\* transaction and the table shows none of the list's rows.
PartlySavedUnseen ==
  \E p \in Procs :
    /\ pc[p] = "saving"
    /\ 0 < nsaved[p] /\ nsaved[p] < Len(pending[p])
    /\ \A i \in DOMAIN pending[p] : Count(pending[p][i], table) = 0

\* C9: no hook updates or deletes a stored row: over every step each row
\* keeps at least the copies it had.
RowsOnlyAdded ==
  [][\A r \in Rows(table) : Count(r, table') >= Count(r, table)]_vars

\* C9 witness: the rows of an earlier create_summarylog call are still stored
\* beside the row a later exam hook inserted.
RowsOfTwoHooksStored ==
  /\ \E r \in Rows(table) : r.notification_object = Resource /\ r.notification_event = Started
  /\ \E r \in Rows(table) : r.notification_object = Lesson /\ r.notification_event = Started
  /\ \E r \in Rows(table) : r.notification_object = Quiz

\* C10: the memoization changes nothing that is stored: the table equals the
\* table the same calls build with get_assignments and exist_exam_notification
\* evaluated afresh on every call.
MemoizationUnseen == table = plain

\* The fields of a logged line: the pieces between its commas.
Fields(logs) == 1 + Cardinality({i \in DOMAIN logs : logs[i] = ","})

\* The ways handle stops.
Ended == {"returned", "UnboundLocalError", "ValueError"}

\* C11: every tick of the profiler gets a line of exactly 9 comma-separated
\* fields from get_logs, whether or not the database can be reached and
\* whatever the PID file holds: get_logs never raises instead.
NineFieldsEveryTick ==
  /\ handle_pc # "UnboundLocalError"
  /\ handle_pc = "info" => Fields(message) = 9

\* C12: with interval 0 the command logs exactly one line and returns; with
\* any other interval it never stops, and every logged line is followed by
\* one sleep before the next tick.
IntervalDecidesTermination ==
  /\ interval = 0 =>
       /\ logged <= 1
       /\ handle_pc \in Ended => handle_pc = "returned" /\ logged = 1
  /\ interval # 0 =>
       /\ handle_pc \notin Ended
       /\ slept = IF handle_pc = "sleep" THEN logged - 1 ELSE logged

\* The stored Quiz-Started rows of the user and exam of an exam log.
QuizStartedFor(examlog_id) ==
  LET examlog == ExamLogById(examlog_id)
  IN  {r \in RowsOf(table, examlog.user_id, Quiz, Started) : r.quiz_id = examlog.exam_id}

\* C13: once a Quiz-Started row of a user and exam is stored, a create_examlog
\* call for them saves nothing, the cache of exist_exam_notification holds no
\* False answer for them, and no Quiz-Started row has a second copy: the rows
\* come from one call only.
QuizStartedByOneCall ==
  \A e \in ExamLogIds :
    LET examlog == ExamLogById(e)
        key == <<examlog.user_id, examlog.exam_id>>
    IN  QuizStartedFor(e) # {} =>
          /\ create_examlog_run(e, table, exam_cache, memberships).notifications = <<>>
          /\ exam_cache[key].hit => exam_cache[key].val
          /\ \A r \in QuizStartedFor(e) : Count(r, table) = 1

\* C13 witness: a Quiz-Started row is stored and a later create_examlog call
\* has looked it up (its True answer is cached).
QuizStartedLookedUp ==
  \E e \in ExamLogIds :
    LET examlog == ExamLogById(e)
    IN  /\ QuizStartedFor(e) # {}
        /\ exam_cache[<<examlog.user_id, examlog.exam_id>>].hit

\* Every resource listed in the lesson has a summary log of the user that
\* stands at progress 1.0.
AllResourcesCompleted(l, user_id) ==
  \A i \in DOMAIN l.resources :
    \E s \in SummaryLogs : /\ s.user_id = user_id
                           /\ s.content_id = l.resources[i].content_id
                           /\ progress[s.id] = FullProgress

HelpOnlyWithCause ==
  \A a \in LiveAttemptLogIds :
    LET attemptlog == AttemptLogById(a)
        summarylog == SummaryLogById(attemptlog.summarylog_id)
        run == parse_attemptslog_run(a, table, assignments_cache, memberships, failed)
    IN  \A i \in DOMAIN run.notifications :
          LET r == run.notifications[i]
          IN  /\ failed_interactions(attemptlog.masterylog_id, failed) > HelpThreshold
              /\ LessonById(r.lesson_id) \in MatchingLessons(summarylog, memberships)
              /\ ContentNodeKind(r.contentnode_id) = EXERCISE

\* C16: parse_summarylog for a summary log with progress below 1.0 and
\* parse_examlog for an exam log that is not closed leave the notification
\* table as it is.
UnfinishedLeavesTable ==
  /\ \A s \in SummaryLogIds :
       progress[s] < FullProgress =>
         Ran(table, parse_summarylog_run(s, table, assignments_cache,
                                         memberships, progress)).table = table
  /\ \A e \in ExamLogIds :
       ~ closed[e] =>
         Ran(table, parse_examlog_run(e, table, exam_cache, memberships, closed)).table = table

\* C16 witness: the learner is in a classroom, has started a resource and the
\* exam, has finished neither the content nor the exam, and no Completed row
\* is stored.
StartedButUnfinished ==
  \E s \in SummaryLogIds, e \in ExamLogIds :
    LET u == SummaryLogById(s).user_id
    IN  /\ progress[s] < FullProgress
        /\ ~ closed[e]
        /\ MatchingLessons(SummaryLogById(s), memberships) # {}
        /\ RowsOf(table, u, Resource, Started) # {}
        /\ QuizStartedFor(e) # {}
        /\ \A r \in Rows(table) : r.notification_event # Completed

\* C17: for a user who is a member of no classroom or group, a call of any of
\* the five hooks for a log of that user saves no notification.
NoMembershipNoRows ==
  \A u \in UserIds :
    LearnerGroups(u, memberships) = {} =>
      /\ \A s \in {x \in SummaryLogIds : SummaryLogById(x).user_id = u} :
           /\ create_summarylog_run(s, table, assignments_cache,
                                    memberships).notifications = <<>>
           /\ parse_summarylog_run(s, table, assignments_cache, memberships,
                                   progress).notifications = <<>>
      /\ \A a \in {x \in LiveAttemptLogIds : AttemptLogById(x).user_id = u} :
           parse_attemptslog_run(a, table, assignments_cache, memberships,
                                 failed).notifications = <<>>
      /\ \A e \in {x \in ExamLogIds : ExamLogById(x).user_id = u} :
           /\ create_examlog_run(e, table, exam_cache, memberships).notifications = <<>>
           /\ parse_examlog_run(e, table, exam_cache, memberships,
                                closed).notifications = <<>>

\* Every Lesson notification of the list comes with a Resource notification
\* of the same event, user and lesson in the same list.
LessonWithResource(notifications) ==
  \A i \in DOMAIN notifications :
    notifications[i].notification_object = Lesson =>
      \E j \in DOMAIN notifications :
        /\ notifications[j].notification_object = Resource
        /\ notifications[j].notification_event = notifications[i].notification_event
        /\ notifications[j].user_id = notifications[i].user_id
        /\ notifications[j].lesson_id = notifications[i].lesson_id

\* C18: every stored Lesson row (Started or Completed) has a stored Resource
\* row of the same event, user and lesson, and a hook call hands a Lesson
\* notification to save_notifications only together with a new Resource
\* notification of that event, user and lesson.
LessonRowsFollowResourceRows ==
  /\ \A r \in Rows(table) :
       r.notification_object = Lesson =>
         \E q \in Rows(table) : /\ q.notification_object = Resource
                                /\ q.notification_event = r.notification_event
                                /\ q.user_id = r.user_id
                                /\ q.lesson_id = r.lesson_id
  /\ \A s \in SummaryLogIds :
       /\ LessonWithResource(create_summarylog_run(s, table, assignments_cache,
                                                   memberships).notifications)
       /\ LessonWithResource(parse_summarylog_run(s, table, assignments_cache,
                                                  memberships, progress).notifications)
  /\ \A a \in LiveAttemptLogIds :
       LessonWithResource(parse_attemptslog_run(a, table, assignments_cache,
                                                memberships, failed).notifications)

\* C18 witness: a Lesson-Started row is stored with its Resource-Started row,
\* and a parse_summarylog call has stored a Resource-Completed row.
LessonRowsStored ==
  \E u \in UserIds :
    /\ RowsOf(table, u, Lesson, Started) # {}
    /\ RowsOf(table, u, Resource, Started) # {}
    /\ RowsOf(table, u, Resource, Completed) # {}

====
